---- MODULE Spec2Model ----
(* Model of listmodel-to-cpp.py: one run of the generator is a straight     *)
(* line of steps (argument checks, load, root check, element extraction,    *)
(* schema definition, schema validation, emission, file writes); the user   *)
(* may run the program again on the same, unchanged input.                  *)
(* Text is modelled as sequences of code points.  The input file is         *)
(* modelled by what the three regular expressions of the program extract    *)
(* from it: whether the root marker matches, and the list of element bodies *)
(* as lists of (name, value) pairs in the order re.findall returns them.    *)
EXTENDS Integers, Sequences, FiniteSets, TLC

(* ---------------- bounds of the model ---------------- *)
MaxElements == 2
MaxLines == 4
MaxRuns == 2

(* ---------------- input domains ---------------- *)
\* property names: "b" and "ab"
Names == { <<98>>, <<97, 98>> }
\* raw value texts: "1" and "qsTr("
Vals == { <<49>>, <<113, 115, 84, 114, 40>> }
\* len(sys.argv)
ArgCounts == {1, 2, 3}

RECURSIVE SeqsUpTo(_, _)
SeqsUpTo(S, n) ==
    IF n = 0 THEN { <<>> }
    ELSE LET shorter == SeqsUpTo(S, n - 1)
         IN  shorter \cup { Append(s, x) : s \in { t \in shorter : Len(t) = n - 1 }, x \in S }

\* the bodies re.findall can return that hold at most n property lines
Bodies(n) == SeqsUpTo(Names \X Vals, n)

\* the lists of n element bodies that hold at most budget property lines in all
RECURSIVE ElementLists(_, _)
ElementLists(n, budget) ==
    IF n = 0 THEN { <<>> }
    ELSE UNION { { <<body>> \o rest : rest \in ElementLists(n - 1, budget - Len(body)) } :
                 body \in Bodies(budget) }

Contents == UNION { ElementLists(n, MaxLines) : n \in 0..MaxElements }

\* a path that names no file: nothing can be read from it
MissingFile == [exists |-> FALSE, root |-> FALSE, elements |-> <<>>]
Files == { MissingFile } \cup [exists : {TRUE}, root : BOOLEAN, elements : Contents]
Perms(S) == { s \in SeqsUpTo(S, Cardinality(S)) :
                Len(s) = Cardinality(S) /\ { s[i] : i \in 1..Len(s) } = S }

(* ---------------- pure helpers ---------------- *)
upper(c) == IF c >= 97 /\ c <= 122 THEN c - 32 ELSE c

first_big_case(s) == <<upper(s[1])>> \o SubSeq(s, 2, Len(s))

\* Python's ordering of str: lexicographic by code point, a proper prefix first
RECURSIVE StrLess(_, _)
StrLess(a, b) ==
    IF b = <<>> THEN FALSE
    ELSE IF a = <<>> THEN TRUE
    ELSE IF a[1] # b[1] THEN a[1] < b[1]
    ELSE StrLess(Tail(a), Tail(b))

RECURSIVE InsertSorted(_, _)
InsertSorted(x, s) ==
    IF s = <<>> THEN <<x>>
    ELSE IF StrLess(x, s[1]) THEN <<x>> \o s
    ELSE <<s[1]>> \o InsertSorted(x, Tail(s))

RECURSIVE sort_items(_)
sort_items(s) == IF s = <<>> THEN <<>> ELSE InsertSorted(s[1], sort_items(Tail(s)))

\* a plausible slip: list(properties) instead of sorted(properties)
unsorted(iterated) == iterated

\* sorted(iterable): the items in the order they are iterated, then sorted
sorted(iterated) == sort_items(iterated)

RECURSIVE str_replace(_, _, _)
str_replace(s, old, new) ==
    IF Len(s) < Len(old) THEN s
    ELSE IF SubSeq(s, 1, Len(old)) = old
         THEN new \o str_replace(SubSeq(s, Len(old) + 1, Len(s)), old, new)
         ELSE <<s[1]>> \o str_replace(Tail(s), old, new)

qsTr == <<113, 115, 84, 114, 40>>
tr == <<116, 114, 40>>

\* values[prop][i].replace("qsTr(", "tr(")
call_arg(val) == str_replace(val, qsTr, tr)

RoleSuffix == <<82, 111, 108, 101>>
role_name(prop) == first_big_case(prop) \o RoleSuffix
field_name(prop) == <<109, 95>> \o prop \o <<115>>

\* {prop for prop, _ in props}
prop_set(props) == { props[i][1] : i \in 1..Len(props) }

\* a plausible slip: only the properties the record lacks
one_sided_difference(a, b) == a \ b

\* set.symmetric_difference
symmetric_difference(a, b) == (a \ b) \cup (b \ a)

\* for prop, val in props: values[prop].append(val)
RECURSIVE fill_values(_, _)
fill_values(vals, props) ==
    IF props = <<>> THEN vals
    ELSE fill_values([vals EXCEPT ![props[1][1]] = Append(@, props[1][2])], Tail(props))

(* ---------------- state ---------------- *)
VARIABLES
    argc,          \* len(sys.argv) of every invocation
    qml_file,      \* the input file on disk, unchanged between runs
    run,           \* number of the current invocation
    iteration,     \* the order in which this process iterates the set properties
    pc,            \* the step the run is at
    elements, num_elements, properties, values, idx,
    schema,        \* properties after line 54 (the sorted list)
    h_content, cpp_content,
    header_file, cpp_file,      \* the two output files on disk
    h_written, cpp_written,     \* whether this run has written them
    exit_status, err, set_difference

vars == <<argc, qml_file, run, iteration, pc, elements, num_elements, properties,
          values, idx, schema, h_content, cpp_content, header_file, cpp_file,
          h_written, cpp_written, exit_status, err, set_difference>>

NoFile == [absent |-> TRUE]
NoContent == [unset |-> TRUE]
Running == -1

Terminal == {"Done", "Fatal", "Crashed"}

Fresh ==
    /\ pc = "Start"
    /\ iteration = <<>>
    /\ elements = <<>>
    /\ num_elements = 0
    /\ properties = {}
    /\ values = <<>>
    /\ idx = 0
    /\ schema = <<>>
    /\ h_content = NoContent
    /\ cpp_content = NoContent
    /\ h_written = FALSE
    /\ cpp_written = FALSE
    /\ exit_status = Running
    /\ err = "none"
    /\ set_difference = {}

Init ==
    /\ argc \in ArgCounts
    /\ qml_file \in (IF argc = 2 THEN Files ELSE { MissingFile })
    /\ run = 1
    /\ header_file = NoFile
    /\ cpp_file = NoFile
    /\ Fresh

fatal(kind) ==
    /\ pc' = "Fatal"
    /\ err' = kind
    /\ exit_status' = 1

\* an exception nobody catches: traceback, interpreter exits with status 1
crash(kind) ==
    /\ pc' = "Crashed"
    /\ err' = kind
    /\ exit_status' = 1

(* ---------------- conditions of the code ---------------- *)
\* a plausible slip: the emptiness test dropped
no_elements_unchecked(els) == FALSE

\* `if not elements`
no_elements(els) == els = <<>>

\* a plausible slip: only missing properties are detected, extra ones pass
schema_lacks(current_props, props) == ~(props \subseteq current_props)

\* `if current_props != properties`
schema_differs(current_props, props) == current_props # props

\* a plausible slip: range(1, num_elements)
insert_calls_skip_first(vals, sch, n) ==
    [i \in 1..(n - 1) |-> [k \in 1..Len(sch) |-> call_arg(vals[sch[k]][i + 1])]]

\* lines 121-123: one insert(...) line per i in range(num_elements)
insert_calls(vals, sch, n) ==
    [i \in 1..n |-> [k \in 1..Len(sch) |-> call_arg(vals[sch[k]][i])]]

(* ---------------- the steps of a run ---------------- *)
\* __main__: the argument-count and file-existence checks
Main ==
    /\ pc = "Start"
    /\ IF argc # 2 THEN fatal("Usage")
       ELSE IF ~qml_file.exists THEN fatal("MissingFile")
       ELSE pc' = "Load" /\ UNCHANGED <<err, exit_status>>
    /\ UNCHANGED <<argc, qml_file, run, iteration, elements, num_elements, properties,
                   values, idx, schema, h_content, cpp_content, header_file, cpp_file,
                   h_written, cpp_written, set_difference>>

\* lines 12-16: the file, known to exist, is read
Load ==
    /\ pc = "Load"
    /\ pc' = "ValidateRoot"
    /\ UNCHANGED <<argc, qml_file, run, iteration, elements, num_elements, properties,
                   values, idx, schema, h_content, cpp_content, header_file, cpp_file,
                   h_written, cpp_written, exit_status, err, set_difference>>

ValidateRoot ==
    /\ pc = "ValidateRoot"
    /\ IF ~qml_file.root THEN fatal("NoRoot")
       ELSE pc' = "ExtractElements" /\ UNCHANGED <<err, exit_status>>
    /\ UNCHANGED <<argc, qml_file, run, iteration, elements, num_elements, properties,
                   values, idx, schema, h_content, cpp_content, header_file, cpp_file,
                   h_written, cpp_written, set_difference>>

ExtractElements ==
    /\ pc = "ExtractElements"
    /\ elements' = qml_file.elements
    /\ num_elements' = Len(qml_file.elements)
    /\ IF no_elements(elements') THEN fatal("NoElements")
       ELSE pc' = "ParseFirstRecord" /\ UNCHANGED <<err, exit_status>>
    /\ UNCHANGED <<argc, qml_file, run, iteration, properties,
                   values, idx, schema, h_content, cpp_content, header_file, cpp_file,
                   h_written, cpp_written, set_difference>>

\* lines 30-40; elements[0] raises IndexError on an empty list
ParseFirstRecord ==
    /\ pc = "ParseFirstRecord"
    /\ IF elements = <<>>
       THEN crash("IndexError") /\ UNCHANGED <<properties, iteration, values, idx>>
       ELSE LET props == elements[1]
            IN  /\ properties' = prop_set(props)
                /\ iteration' \in Perms(prop_set(props))
                /\ values' = fill_values([p \in prop_set(props) |-> <<>>], props)
                /\ idx' = 1
                /\ pc' = "ValidateRemainingRecords"
                /\ UNCHANGED <<err, exit_status>>
    /\ UNCHANGED <<argc, qml_file, run, elements, num_elements,
                   schema, h_content, cpp_content, header_file, cpp_file,
                   h_written, cpp_written, set_difference>>

\* one iteration of `for idx in range(1, num_elements)`
ValidateRecord ==
    /\ pc = "ValidateRemainingRecords"
    /\ idx < num_elements
    /\ LET props == elements[idx + 1]
           current_props == prop_set(props)
       IN  IF schema_differs(current_props, properties)
           THEN /\ set_difference' = symmetric_difference(properties, current_props)
                /\ fatal("Schema")
                /\ UNCHANGED <<values, idx>>
           ELSE /\ values' = fill_values(values, props)
                /\ idx' = idx + 1
                /\ UNCHANGED <<pc, err, exit_status, set_difference>>
    /\ UNCHANGED <<argc, qml_file, run, iteration, elements, num_elements, properties,
                   schema, h_content, cpp_content, header_file, cpp_file,
                   h_written, cpp_written>>

\* the loop is over; line 54: properties = sorted(properties)
SortProperties ==
    /\ pc = "ValidateRemainingRecords"
    /\ idx >= num_elements
    /\ schema' = sorted(iteration)
    /\ pc' = "Emit"
    /\ UNCHANGED <<argc, qml_file, run, iteration, elements, num_elements, properties,
                   values, idx, h_content, cpp_content, header_file, cpp_file,
                   h_written, cpp_written, exit_status, err, set_difference>>

\* lines 57-84: the header text
EmitHeader ==
    /\ pc = "Emit"
    /\ h_content' = [roles       |-> [k \in 1..Len(schema) |-> role_name(schema[k])],
                     fields      |-> [k \in 1..Len(schema) |-> field_name(schema[k])],
                     insert_args |-> schema]
    /\ pc' = "EmitSource"
    /\ UNCHANGED <<argc, qml_file, run, iteration, elements, num_elements, properties,
                   values, idx, schema, cpp_content, header_file, cpp_file,
                   h_written, cpp_written, exit_status, err, set_difference>>

\* lines 87-124: the source text; properties[0] raises IndexError on an empty list
EmitSource ==
    /\ pc = "EmitSource"
    /\ IF schema = <<>>
       THEN crash("IndexError") /\ UNCHANGED cpp_content
       ELSE /\ cpp_content' =
                 [row_count   |-> field_name(schema[1]),
                  data        |-> [k \in 1..Len(schema) |->
                                     <<role_name(schema[k]), field_name(schema[k])>>],
                  role_names  |-> [k \in 1..Len(schema) |->
                                     <<role_name(schema[k]), schema[k]>>],
                  insert_args |-> schema,
                  insert_body |-> [k \in 1..Len(schema) |->
                                     <<field_name(schema[k]), schema[k]>>],
                  populate    |-> insert_calls(values, schema, num_elements)]
            /\ pc' = "WriteHeader"
            /\ UNCHANGED <<err, exit_status>>
    /\ UNCHANGED <<argc, qml_file, run, iteration, elements, num_elements, properties,
                   values, idx, schema, h_content, header_file, cpp_file,
                   h_written, cpp_written, set_difference>>

\* lines 131-132: open(header_file, 'w') either succeeds or raises OSError
WriteHeader ==
    /\ pc = "WriteHeader"
    /\ \E ok \in BOOLEAN :
         IF ok
         THEN /\ header_file' = h_content
              /\ h_written' = TRUE
              /\ pc' = "WriteSource"
              /\ UNCHANGED <<err, exit_status>>
         ELSE crash("OSError") /\ UNCHANGED <<header_file, h_written>>
    /\ UNCHANGED <<argc, qml_file, run, iteration, elements, num_elements, properties,
                   values, idx, schema, h_content, cpp_content, cpp_file,
                   cpp_written, set_difference>>

\* lines 134-135: open(cpp_file, 'w') either succeeds or raises OSError
WriteSource ==
    /\ pc = "WriteSource"
    /\ \E ok \in BOOLEAN :
         IF ok
         THEN /\ cpp_file' = cpp_content
              /\ cpp_written' = TRUE
              /\ pc' = "Report"
              /\ UNCHANGED <<err, exit_status>>
         ELSE crash("OSError") /\ UNCHANGED <<cpp_file, cpp_written>>
    /\ UNCHANGED <<argc, qml_file, run, iteration, elements, num_elements, properties,
                   values, idx, schema, h_content, cpp_content, header_file,
                   h_written, set_difference>>

\* line 137, then the interpreter exits with status 0
Report ==
    /\ pc = "Report"
    /\ pc' = "Done"
    /\ exit_status' = 0
    /\ UNCHANGED <<argc, qml_file, run, iteration, elements, num_elements, properties,
                   values, idx, schema, h_content, cpp_content, header_file, cpp_file,
                   h_written, cpp_written, err, set_difference>>

\* the user runs the program again on the same input, in a new process; the
\* files on disk stay
Rerun ==
    /\ pc \in Terminal
    /\ run < MaxRuns
    /\ run' = run + 1
    /\ iteration' = <<>>
    /\ pc' = "Start"
    /\ elements' = <<>>
    /\ num_elements' = 0
    /\ properties' = {}
    /\ values' = <<>>
    /\ idx' = 0
    /\ schema' = <<>>
    /\ h_content' = NoContent
    /\ cpp_content' = NoContent
    /\ h_written' = FALSE
    /\ cpp_written' = FALSE
    /\ exit_status' = Running
    /\ err' = "none"
    /\ set_difference' = {}
    /\ UNCHANGED <<argc, qml_file, header_file, cpp_file>>

\* the steps of one run
RunStep ==
    \/ Main
    \/ Load
    \/ ValidateRoot
    \/ ExtractElements
    \/ ParseFirstRecord
    \/ ValidateRecord
    \/ SortProperties
    \/ EmitHeader
    \/ EmitSource
    \/ WriteHeader
    \/ WriteSource
    \/ Report

Next ==
    \/ RunStep
    \/ Rerun

Spec == Init /\ [][Next]_vars

(* ---------------- vocabulary of the properties ---------------- *)
\* the records of the input, as written in the file
Records == qml_file.elements
N == Len(Records)
KeySet(i) == { Records[i][k][1] : k \in 1..Len(Records[i]) }
ValuesOf(i, p) == { Records[i][k][2] : k \in { m \in 1..Len(Records[i]) : Records[i][m][1] = p } }
Occurrences(i, p) == Cardinality({ k \in 1..Len(Records[i]) : Records[i][k][1] = p })
Uniform == \A i \in 1..N : KeySet(i) = KeySet(1)
Mismatch == \E i \in 2..N : KeySet(i) # KeySet(1)
FirstMismatch == CHOOSE j \in 2..N :
                    /\ KeySet(j) # KeySet(1)
                    /\ \A i \in 2..(j - 1) : KeySet(i) = KeySet(1)
\* the property names of the first record in ascending order
Ascending(seq) == \A i, j \in 1..Len(seq) : i < j => StrLess(seq[i], seq[j])
ExpectedSchema == CHOOSE seq \in Perms(KeySet(1)) : Ascending(seq)
\* the program was started on an existing file with the right argument count
Generating == argc = 2 /\ qml_file.exists
EmitStages == {"Emit", "EmitSource", "WriteHeader", "WriteSource", "Report", "Done"}
Finished == pc \in Terminal

RECURSIVE OccurrencesBefore(_, _)
OccurrencesBefore(j, p) ==
    IF j <= 1 THEN 0 ELSE Occurrences(j - 1, p) + OccurrencesBefore(j - 1, p)

\* the first check, in program order, that the input fails
FirstFailure ==
    IF argc # 2 THEN "Usage"
    ELSE IF ~qml_file.exists THEN "MissingFile"
    ELSE IF ~qml_file.root THEN "NoRoot"
    ELSE IF N = 0 THEN "NoElements"
    ELSE IF Mismatch THEN "Schema"
    ELSE "none"

\* the stage of the whole-program state machine a step belongs to
StageRank(p) ==
    CASE p \in {"Start", "Load"} -> 0
      [] p = "ValidateRoot" -> 1
      [] p = "ExtractElements" -> 2
      [] p = "ParseFirstRecord" -> 3
      [] p = "ValidateRemainingRecords" -> 4
      [] p \in EmitStages \ {"Done"} -> 5
      [] p = "Done" -> 6
      [] p = "Fatal" -> 7
      [] OTHER -> 8

(* ---------------- C1 ---------------- *)
\* C1: when some record after the first has a property-name set different
\* from the first record's, the run never reaches emission, writes neither
\* output file at any point, keeps making steps until it has ended, and ends
\* with a non-zero exit status.
C1_MismatchWritesNothing ==
    (Generating /\ Mismatch) =>
        /\ ~h_written /\ ~cpp_written
        /\ pc \notin EmitStages
        /\ h_content = NoContent /\ cpp_content = NoContent
        /\ (Finished => exit_status # 0 /\ exit_status # Running)
        /\ (~Finished => ENABLED RunStep)

C1_Witness ==
    /\ Generating /\ Mismatch
    /\ pc = "Fatal" /\ err = "Schema" /\ exit_status = 1
    /\ ~h_written /\ ~cpp_written

(* ---------------- C2 ---------------- *)
\* C2: when a run has ended, either both output files have been written by
\* it or neither has, whatever the outcome of the run.
C2_BothOrNeither == Finished => (h_written <=> cpp_written)

(* ---------------- C3 ---------------- *)
\* C3: the generated role enum, field list, data-accessor branches, role-name
\* entries and insert parameters each have exactly P entries, one per
\* property of the first record, in ascending order of property name, and
\* populateModel holds exactly N insert calls.
C3_EntriesPerProperty ==
    LET sch == ExpectedSchema
        P == Cardinality(KeySet(1))
    IN  /\ h_content # NoContent =>
              /\ Len(h_content.roles) = P
              /\ Len(h_content.fields) = P
              /\ Len(h_content.insert_args) = P
              /\ \A k \in 1..P :
                    /\ h_content.roles[k] = role_name(sch[k])
                    /\ h_content.fields[k] = field_name(sch[k])
                    /\ h_content.insert_args[k] = sch[k]
        /\ cpp_content # NoContent =>
              /\ Len(cpp_content.data) = P
              /\ Len(cpp_content.role_names) = P
              /\ Len(cpp_content.insert_args) = P
              /\ \A k \in 1..P :
                    /\ cpp_content.data[k] = <<role_name(sch[k]), field_name(sch[k])>>
                    /\ cpp_content.role_names[k] = <<role_name(sch[k]), sch[k]>>
                    /\ cpp_content.insert_args[k] = sch[k]
              /\ Len(cpp_content.populate) = N

C3_Witness ==
    /\ pc = "Done"
    /\ N = 2 /\ Cardinality(KeySet(1)) = 2
    /\ iteration # schema
    /\ Len(cpp_file.populate) = 2 /\ Len(header_file.roles) = 2

(* ---------------- C4 ---------------- *)
\* C4: the i-th generated insert call belongs to the i-th ListElement in
\* source order, and its k-th argument is that record's value (after the
\* qsTr substitution) for the k-th property of the sorted schema.
C4_CallsFollowRecords ==
    cpp_content # NoContent =>
        /\ Len(cpp_content.populate) = N
        /\ \A i \in 1..N : \A k \in 1..Len(ExpectedSchema) :
              cpp_content.populate[i][k] \in
                  { call_arg(v) : v \in ValuesOf(i, ExpectedSchema[k]) }

(* ---------------- C5 ---------------- *)
\* C5: a run moves through the stages only forward in the order Start,
\* Validate Root, Extract Elements, Parse First Record, Validate Remaining
\* Records, Emit, Done, or from a validating stage to Fatal; it ends in Done
\* with exit 0 or in Fatal with exit 1 and the diagnostic of the earliest
\* failing check; Emit is reached only when no check fails.
C5_StageStep ==
    run' = run =>
        \/ StageRank(pc') = StageRank(pc)
        \/ StageRank(pc') = StageRank(pc) + 1 /\ StageRank(pc') <= 6
        \/ StageRank(pc') = 7 /\ StageRank(pc) <= 4

C5_Outcome ==
    /\ pc \in EmitStages => FirstFailure = "none"
    /\ Finished =>
          IF FirstFailure = "none"
          THEN pc = "Done" /\ exit_status = 0
          ELSE pc = "Fatal" /\ exit_status = 1 /\ err = FirstFailure

C5_StagesAndOutcome == [][C5_StageStep]_vars /\ []C5_Outcome

(* ---------------- C6 ---------------- *)
\* C6: an input with the root marker and no ListElement block ends in the
\* "no elements" error with exit status 1, and no output file is written.
C6_NoElementsIsFatal ==
    (Generating /\ qml_file.root /\ N = 0) =>
        /\ ~h_written /\ ~cpp_written
        /\ pc \notin EmitStages \cup {"ParseFirstRecord", "ValidateRemainingRecords"}
        /\ (Finished => pc = "Fatal" /\ err = "NoElements" /\ exit_status = 1)

C6_Witness ==
    /\ Generating /\ qml_file.root /\ N = 0
    /\ pc = "Fatal" /\ err = "NoElements" /\ exit_status = 1

(* ---------------- C7 ---------------- *)
\* C7: a run that writes an output file which an earlier run on the same
\* input has left on disk writes the same content again, whatever this
\* process's set iteration order is.
C7_RewriteStep ==
    /\ header_file # NoFile => header_file' = header_file
    /\ cpp_file # NoFile => cpp_file' = cpp_file

C7_Deterministic == [][C7_RewriteStep]_vars

\* a later run, iterating the set in another order than the sorted one, has
\* rewritten the header and finds the source of an earlier run on disk
C7_Witness ==
    /\ run >= 2
    /\ pc = "WriteSource" /\ h_written /\ header_file = h_content
    /\ cpp_file # NoFile
    /\ Cardinality(properties) = 2
    /\ iteration # schema

C9_OneValuePerRecord ==
    pc \in EmitStages =>
        \A p \in properties :
            /\ Len(values[p]) = N
            /\ \A i \in 1..N : values[p][i] \in ValuesOf(i, p)

(* ---------------- C10 ---------------- *)
\* C10: an input with the root marker, at least one ListElement and the same
\* property-name set in all records ends in Done with both files written and
\* exit 0.
C10_UniformEndsDone ==
    (Finished /\ Generating /\ qml_file.root /\ N >= 1 /\ Uniform) =>
        /\ pc = "Done"
        /\ h_written /\ cpp_written
        /\ exit_status = 0

====
